---------------------------- MODULE Spec2Model ----------------------------
(***************************************************************************)
(* State-machine model of the cache-layer storage engine:                  *)
(*   CacheEntry        (src/src/cache/CacheEntry.ts)                        *)
(*   eviction policies (src/src/cache/EvictionPolicies.ts)                  *)
(*   CacheEngine       (src/unnamed/part_002, lines 63-364)                 *)
(*   Config            (src/unnamed/part_003)                               *)
(*                                                                         *)
(* Time is Date.now() in milliseconds.  One engine call is one atomic      *)
(* step: the engine is single-threaded and synchronous, so every           *)
(* Date.now() read inside one call returns the value of the variable now.  *)
(* The store is a JavaScript Map: it is modelled as the sequence of its    *)
(* entries in Map iteration order (insertion order; Map.set on a present   *)
(* key keeps the key's position).                                          *)
(***************************************************************************)
EXTENDS Integers, Sequences, FiniteSets, TLC

VARIABLES
    policy,          \* the EvictionPolicy the engine was constructed with
    defaultTTL,      \* Config.defaultTTL, seconds
    now,             \* Date.now(), milliseconds
    store,           \* CacheEngine.store, in Map iteration order
    accessOrder,     \* LRUStrategy.accessOrder
    frequencies,     \* LFUStrategy.frequencies, a function on the tracked keys
    insertionOrder,  \* FIFOStrategy.insertionOrder
    stats,           \* CacheEngine.stats
    maxMemoryBytes,  \* Config.getMaxMemoryBytes()
    last,            \* the call made by the last step and what it returned
    ref,             \* history: what the active policy's ordering should be
    steps,           \* number of steps taken so far
    worker,          \* the fields of the CleanupWorker
    timers           \* the repeating timers created by setInterval, by id

vars == <<policy, defaultTTL, now, store, accessOrder, frequencies,
          insertionOrder, stats, maxMemoryBytes, last, ref, steps, worker,
          timers>>

-----------------------------------------------------------------------------
(* Bounds of the model *)

\* engine calls and clock ticks explored from construction
MaxSteps == 4

\* the same, in the specification of the TTL claims
MaxStepsTTL == 4

\* the same, in the specification of the LRU claims
MaxStepsEv == 5

\* the same, in the specification of the LFU claims
MaxStepsLFU == 4

\* batch requests explored from construction, with the gets between them
MaxStepsBatch == 3

\* operations in one batch request
MaxBatchLen == 2

\* the same, in the specification of the sweeper claims
MaxStepsWorker == 5

\* requests and engine calls explored in the specification of the HTTP API
MaxStepsApi == 4

\* the same, in the specification with a store of twelve entries
MaxStepsBulk == 3

\* the same, in the specification of the expiry claims
MaxStepsExpiry == 4

\* the same, in the specification of the statistics claims
MaxStepsStats == 7

-----------------------------------------------------------------------------
(* Keys, values and options *)

Keys == {"A", "B"}

Keys3 == {"A", "B", "C"}

RECURSIVE Repeat(_)
Repeat(n) ==
    IF n = 0 THEN ""
    ELSE IF n % 2 = 0 THEN LET h == Repeat(n \div 2) IN h \o h
    ELSE "a" \o Repeat(n - 1)

MaxKeyLength == 512

EmptyKey == ""

LongestKey == Repeat(MaxKeyLength)

TooLongKey == Repeat(MaxKeyLength + 1)

\* the keys that pass isValidKey
ValidKeys == Keys3 \cup {LongestKey}

AllKeys == ValidKeys \cup {EmptyKey, TooLongKey}

\* null, as a key
NoKey == "null"

\* key.length, and Buffer.byteLength(key, 'utf8') of an ASCII key
KeyLength(k) == Len(k)

NumV(n) == [t |-> "number", n |-> n, len |-> 0]

StrV(id, l) == [t |-> "string", n |-> id, len |-> l]

NullV == [t |-> "null", n |-> 0, len |-> 0]

BigLen == 81

\* a key that isValidKey accepts and the key pattern of the API rejects
SpacedKey == "a b"

Values == {NumV(1), StrV(1, BigLen)}

Policies == {"none", "lru", "lfu", "fifo"}

DefaultTTLs == {0, 1}

Overwrites == {"undefined", "true", "false"}

TTLs == {-1, 0, 1}

Options(ttls, ows) ==
    [ttlGiven : {TRUE}, ttl : ttls, overwrite : ows]
      \cup [ttlGiven : {FALSE}, ttl : {0}, overwrite : ows]

NoOptions == [ttlGiven |-> FALSE, ttl |-> 0, overwrite |-> "undefined"]

TickSteps == {1000}

MsPerSecond == 1000

EntryOverhead == 64

\* a ceiling reached by two entries with a one-character key and a number
TwoEntries == 146

\* a ceiling reached by three such entries, or by one of them and one entry
\* with a string of BigLen characters
ThreeEntries == 219

NoExpiry == -1

-----------------------------------------------------------------------------
(* CacheEntry *)

\* the TTL added to the clock without the conversion to milliseconds
NewEntry_seconds(k, v, ttlGiven, ttl, t) ==
    [key |-> k, value |-> v, createdAt |-> t, lastAccessedAt |-> t,
     accessCount |-> 0,
     expiresAt |-> IF ttlGiven /\ ttl # 0 /\ ttl > 0
                   THEN t + ttl ELSE NoExpiry]

NewEntry(k, v, ttlGiven, ttl, t) ==
    [key |-> k, value |-> v, createdAt |-> t, lastAccessedAt |-> t,
     accessCount |-> 0,
     expiresAt |-> IF ttlGiven /\ ttl # 0 /\ ttl > 0
                   THEN t + ttl * MsPerSecond ELSE NoExpiry]

\* an entry counted as expired at the instant of its expiry
isExpired_inclusive(e, t) ==
    IF e.expiresAt = NoExpiry THEN FALSE ELSE t >= e.expiresAt

isExpired(e, t) ==
    IF e.expiresAt = NoExpiry THEN FALSE ELSE t > e.expiresAt

markAccessed(e, t) ==
    [e EXCEPT !.lastAccessedAt = t, !.accessCount = @ + 1]

Max0(x) == IF x > 0 THEN x ELSE 0

CeilDiv(x, d) == (x + d - 1) \div d

\* null is returned as NoExpiry
getRemainingTTL(e, t) ==
    IF e.expiresAt = NoExpiry THEN NoExpiry
    ELSE CeilDiv(Max0(e.expiresAt - t), MsPerSecond)

-----------------------------------------------------------------------------
(* The store as a Map *)

StoreKeys(st) == {st[i].key : i \in 1..Len(st)}

HasKey(st, k) == k \in StoreKeys(st)

IndexOfKey(st, k) == CHOOSE i \in 1..Len(st) : st[i].key = k

StoreGet(st, k) == st[IndexOfKey(st, k)]

StorePut(st, e) ==
    IF HasKey(st, e.key)
    THEN [st EXCEPT ![IndexOfKey(st, e.key)] = e]
    ELSE Append(st, e)

StoreDelete(st, k) == SelectSeq(st, LAMBDA e : e.key # k)

-----------------------------------------------------------------------------
(* Eviction strategies.  An engine value E is the record of the engine's   *)
(* mutable fields; the strategy objects are the fields accessOrder,        *)
(* frequencies and insertionOrder, of which only the active policy's one   *)
(* is ever touched.                                                        *)

IndexOf(s, k) ==
    IF \E i \in 1..Len(s) : s[i] = k
    THEN CHOOSE i \in 1..Len(s) : s[i] = k /\ \A j \in 1..(i - 1) : s[j] # k
    ELSE 0

\* splice(index, 1) of the first occurrence, if any
RemoveFirst(s, k) ==
    LET i == IndexOf(s, k)
    IN IF i = 0 THEN s
       ELSE [j \in 1..(Len(s) - 1) |-> IF j < i THEN s[j] ELSE s[j + 1]]

\* the ordering returned as it is, stale keys included
DropStale_none(ord, st) == ord

RECURSIVE DropStale(_, _)
DropStale(ord, st) ==
    IF ord = <<>> THEN <<>>
    ELSE IF HasKey(st, Head(ord)) THEN ord
    ELSE DropStale(Tail(ord), st)

\* map.get(k) || 0
GetOr0(map, k) == IF k \in DOMAIN map THEN map[k] ELSE 0

MapSet(map, k, x) == [y \in DOMAIN map \cup {k} |-> IF y = k THEN x ELSE map[y]]

MapDelete(map, k) == [y \in DOMAIN map \ {k} |-> map[y]]

EmptyMap == [y \in {} |-> 0]

\* the tie between equal frequencies broken towards the newest access
RECURSIVE LFUScan_newest(_, _, _, _, _, _)
LFUScan_newest(st, freq, i, minFreq, victim, oldestTime) ==
    IF i > Len(st) THEN victim
    ELSE LET f == GetOr0(freq, st[i].key)
             better == \/ victim = NoKey
                       \/ f < minFreq
                       \/ (f = minFreq /\ st[i].lastAccessedAt > oldestTime)
         IN IF better
            THEN LFUScan_newest(st, freq, i + 1, f, st[i].key,
                                st[i].lastAccessedAt)
            ELSE LFUScan_newest(st, freq, i + 1, minFreq, victim, oldestTime)

RECURSIVE LFUScan(_, _, _, _, _, _)
LFUScan(st, freq, i, minFreq, victim, oldestTime) ==
    IF i > Len(st) THEN victim
    ELSE LET f == GetOr0(freq, st[i].key)
             better == \/ victim = NoKey
                       \/ f < minFreq
                       \/ (f = minFreq /\ st[i].lastAccessedAt < oldestTime)
         IN IF better
            THEN LFUScan(st, freq, i + 1, f, st[i].key, st[i].lastAccessedAt)
            ELSE LFUScan(st, freq, i + 1, minFreq, victim, oldestTime)

\* the None policy evicting at the ceiling like the others
strategyShouldEvict_any(currentSize, maxSize) == currentSize >= maxSize

strategyShouldEvict(currentSize, maxSize) ==
    IF policy = "none" THEN FALSE ELSE currentSize >= maxSize

\* LRU and FIFO returning the oldest key of the ordering without looking
\* it up in the store
selectVictim_unchecked(E) ==
    CASE policy = "lru" ->
           [victim |-> IF E.accessOrder = <<>> THEN NoKey
                       ELSE Head(E.accessOrder),
            E |-> E]
      [] policy = "fifo" ->
           [victim |-> IF E.insertionOrder = <<>> THEN NoKey
                       ELSE Head(E.insertionOrder),
            E |-> E]
      [] policy = "lfu" ->
           [victim |-> LFUScan(E.store, E.frequencies, 1, 0, NoKey, 0),
            E |-> E]
      [] OTHER -> [victim |-> NoKey, E |-> E]

selectVictim(E) ==
    CASE policy = "lru" ->
           LET ord == DropStale(E.accessOrder, E.store)
           IN [victim |-> IF ord = <<>> THEN NoKey ELSE Head(ord),
               E |-> [E EXCEPT !.accessOrder = ord]]
      [] policy = "fifo" ->
           LET ord == DropStale(E.insertionOrder, E.store)
           IN [victim |-> IF ord = <<>> THEN NoKey ELSE Head(ord),
               E |-> [E EXCEPT !.insertionOrder = ord]]
      [] policy = "lfu" ->
           [victim |-> LFUScan(E.store, E.frequencies, 1, 0, NoKey, 0),
            E |-> E]
      [] OTHER -> [victim |-> NoKey, E |-> E]

\* LRU without the move to the most-recent end
onAccess_still(E, k) ==
    CASE policy = "lfu" ->
           [E EXCEPT !.frequencies = MapSet(@, k, GetOr0(@, k) + 1)]
      [] OTHER -> E

onAccess(E, k) ==
    CASE policy = "lru" ->
           [E EXCEPT !.accessOrder = Append(RemoveFirst(@, k), k)]
      [] policy = "lfu" ->
           [E EXCEPT !.frequencies = MapSet(@, k, GetOr0(@, k) + 1)]
      [] OTHER -> E

onInsert(E, k) ==
    CASE policy = "lru" -> [E EXCEPT !.accessOrder = Append(@, k)]
      [] policy = "lfu" -> [E EXCEPT !.frequencies = MapSet(@, k, 1)]
      [] policy = "fifo" -> [E EXCEPT !.insertionOrder = Append(@, k)]
      [] OTHER -> E

onRemove(E, k) ==
    CASE policy = "lru" -> [E EXCEPT !.accessOrder = RemoveFirst(@, k)]
      [] policy = "lfu" -> [E EXCEPT !.frequencies = MapDelete(@, k)]
      [] policy = "fifo" -> [E EXCEPT !.insertionOrder = RemoveFirst(@, k)]
      [] OTHER -> E

-----------------------------------------------------------------------------
(* CacheEngine *)

Truthy(o) == o = "true"

\* the overwrite check left out
rejectsExisting_dropped(existing, o) == FALSE

rejectsExisting(existing, o) == existing /\ ~Truthy(o.overwrite)

\* options.ttl || defaultTTL
resolveTTL_falsy(o) ==
    IF o.ttlGiven /\ o.ttl # 0 THEN o.ttl ELSE defaultTTL

resolveTTL(o) == IF o.ttlGiven THEN o.ttl ELSE defaultTTL

\* a string passes for a number
isNumber_loose(v) == v.t \in {"number", "string"}

isNumber(v) == v.t = "number"

\* the upper limit taken as exclusive
isValidKey_exclusive(k) == KeyLength(k) > 0 /\ KeyLength(k) < MaxKeyLength

isValidKey(k) == KeyLength(k) > 0 /\ KeyLength(k) <= MaxKeyLength

calculateValueSize(v) ==
    CASE v.t = "null"   -> 8
      [] v.t = "string" -> v.len
      [] v.t = "number" -> 8
      [] OTHER          -> 1

RECURSIVE SumBytes(_, _)
SumBytes(st, i) ==
    IF i > Len(st) THEN 0
    ELSE KeyLength(st[i].key) + calculateValueSize(st[i].value)
           + EntryOverhead + SumBytes(st, i + 1)

calculateMemoryUsage(E) == SumBytes(E.store, 1)

shouldEvict(E) ==
    strategyShouldEvict(calculateMemoryUsage(E), maxMemoryBytes)

delete(E, k) ==
    IF HasKey(E.store, k)
    THEN [ret |-> TRUE,
          E |-> onRemove([E EXCEPT !.store = StoreDelete(@, k)], k)]
    ELSE [ret |-> FALSE, E |-> E]

\* The while loop of evictEntries.  spin reports an iteration that selected
\* a victim, failed to delete it and so left the loop condition unchanged.
RECURSIVE EvictLoop(_, _, _, _)
EvictLoop(E, evicted, maxEvictions, victims) ==
    IF evicted < maxEvictions /\ shouldEvict(E)
    THEN LET sv == selectVictim(E)
         IN IF sv.victim = NoKey
            THEN [E |-> sv.E, evicted |-> evicted, victims |-> victims,
                  spin |-> FALSE]
            ELSE LET d == delete(sv.E, sv.victim)
                 IN IF d.ret
                    THEN EvictLoop(
                           [d.E EXCEPT !.stats.evictionCount = @ + 1],
                           evicted + 1, maxEvictions,
                           Append(victims, sv.victim))
                    ELSE [E |-> d.E, evicted |-> evicted,
                          victims |-> victims, spin |-> TRUE]
    ELSE [E |-> E, evicted |-> evicted, victims |-> victims, spin |-> FALSE]

\* the loop bounded by the store size only
evictEntries_unbounded(E) ==
    LET maxEvictions == Len(E.store)
        r == EvictLoop(E, 0, maxEvictions, <<>>)
    IN [ret |-> r.evicted > 0 \/ ~shouldEvict(r.E),
        E |-> r.E, victims |-> r.victims, spin |-> r.spin,
        maxEvictions |-> maxEvictions]

evictEntries(E) ==
    LET maxEvictions == CeilDiv(Len(E.store), 10)
        r == EvictLoop(E, 0, maxEvictions, <<>>)
    IN [ret |-> r.evicted > 0 \/ ~shouldEvict(r.E),
        E |-> r.E, victims |-> r.victims, spin |-> r.spin,
        maxEvictions |-> maxEvictions]

set(E, k, v, o, t) ==
    IF ~isValidKey(k)
    THEN [ret |-> FALSE, E |-> E, victims |-> <<>>, evictRan |-> FALSE]
    ELSE
    LET existing == HasKey(E.store, k)
    IN IF rejectsExisting(existing, o)
       THEN [ret |-> FALSE, E |-> E, victims |-> <<>>, evictRan |-> FALSE]
       ELSE
       LET E1 == IF existing THEN onRemove(E, k) ELSE E
           ttl == resolveTTL(o)
           entry == NewEntry(k, v, ttl > 0, ttl, t)
           ev == evictEntries(E1)
           inserted(E2) == onInsert([E2 EXCEPT !.store = StorePut(@, entry)], k)
       IN IF shouldEvict(E1)
          THEN IF ~ev.ret
               THEN [ret |-> FALSE, E |-> ev.E, victims |-> ev.victims,
                     evictRan |-> TRUE]
               ELSE [ret |-> TRUE, E |-> inserted(ev.E),
                     victims |-> ev.victims, evictRan |-> TRUE]
          ELSE [ret |-> TRUE, E |-> inserted(E1), victims |-> <<>>,
                evictRan |-> FALSE]

\* get returns the stored value, or null (NullV) for not-found
get(E, k, t) ==
    IF ~HasKey(E.store, k)
    THEN [ret |-> NullV, E |-> [E EXCEPT !.stats.missCount = @ + 1]]
    ELSE LET entry == StoreGet(E.store, k)
         IN IF isExpired(entry, t)
            THEN [ret |-> NullV,
                  E |-> [delete(E, k).E EXCEPT !.stats.missCount = @ + 1,
                                               !.stats.expiredCount = @ + 1]]
            ELSE [ret |-> entry.value,
                  E |-> [onAccess([E EXCEPT !.store =
                                      StorePut(@, markAccessed(entry, t))], k)
                           EXCEPT !.stats.hitCount = @ + 1]]

\* has notifying the strategy of an access to a live key
has_touch(E, k, t) ==
    IF ~HasKey(E.store, k) THEN [ret |-> FALSE, E |-> E]
    ELSE IF isExpired(StoreGet(E.store, k), t)
         THEN [ret |-> FALSE, E |-> delete(E, k).E]
         ELSE [ret |-> TRUE, E |-> onAccess(E, k)]

has(E, k, t) ==
    IF ~HasKey(E.store, k) THEN [ret |-> FALSE, E |-> E]
    ELSE IF isExpired(StoreGet(E.store, k), t)
         THEN [ret |-> FALSE, E |-> delete(E, k).E]
         ELSE [ret |-> TRUE, E |-> E]

keys(E, t) ==
    LET live == SelectSeq(E.store, LAMBDA e : ~isExpired(e, t))
    IN [i \in 1..Len(live) |-> live[i].key]

\* clear taking the counters back to zero with the store
clear_reset(E) ==
    [E EXCEPT !.store = <<>>,
              !.stats = [hitCount |-> 0, missCount |-> 0, evictionCount |-> 0,
                         expiredCount |-> 0, startTime |-> @.startTime]]

\* clear leaving the store as it is
clear_kept(E) == E

clear(E) == [E EXCEPT !.store = <<>>]

size(E) == Len(E.store)

RECURSIVE DeleteAll(_, _)
DeleteAll(E, ks) ==
    IF ks = <<>> THEN E ELSE DeleteAll(delete(E, Head(ks)).E, Tail(ks))

cleanupExpired(E, t) ==
    LET expired == SelectSeq(E.store, LAMBDA e : isExpired(e, t))
        keysToDelete == [i \in 1..Len(expired) |-> expired[i].key]
        expiredCount == Len(keysToDelete)
        E1 == DeleteAll(E, keysToDelete)
    IN [ret |-> expiredCount,
        E |-> IF expiredCount > 0
              THEN [E1 EXCEPT !.stats.expiredCount = @ + expiredCount]
              ELSE E1]

\* keys() deleting the expired entries it meets
keysCall_purging(E, t) == [ret |-> keys(E, t), E |-> cleanupExpired(E, t).E]

\* keys() applied by a caller: the listing, and the engine as keys left it
keysCall(E, t) == [ret |-> keys(E, t), E |-> E]

\* Math.floor(a / b) in place of Math.round
Round_floor(a, b) == a \div b

\* Math.round(a / b) for a >= 0 and b > 0: halves round up
Round(a, b) == (2 * a + b) \div (2 * b)

BytesPerMB == 1024 * 1024

\* hitRate and memoryUsageMB have two decimals and are given in hundredths;
\* maxMemoryMB, a copy of a configuration field, is left out
getStats(E, t) ==
    LET memoryUsageBytes == calculateMemoryUsage(E)
        totalOperations == E.stats.hitCount + E.stats.missCount
    IN [totalKeys |-> Len(E.store),
        memoryUsageBytes |-> memoryUsageBytes,
        memoryUsageMB |-> Round(memoryUsageBytes * 100, BytesPerMB),
        hitCount |-> E.stats.hitCount,
        missCount |-> E.stats.missCount,
        hitRate |-> IF totalOperations > 0
                    THEN Round(E.stats.hitCount * 10000, totalOperations)
                    ELSE 0,
        evictionCount |-> E.stats.evictionCount,
        expiredCount |-> E.stats.expiredCount,
        uptime |-> t - E.stats.startTime,
        maxMemoryBytes |-> maxMemoryBytes]

\* the new TTL counted from the creation of the old entry
updateTTL_fromCreation(E, k, ttl, t) ==
    IF ~HasKey(E.store, k) \/ isExpired(StoreGet(E.store, k), t)
    THEN [ret |-> FALSE, E |-> E]
    ELSE LET entry == StoreGet(E.store, k)
             newEntry == NewEntry(entry.key, entry.value, TRUE, ttl,
                                  entry.createdAt)
         IN [ret |-> TRUE, E |-> [E EXCEPT !.store = StorePut(@, newEntry)]]

updateTTL(E, k, ttl, t) ==
    IF ~HasKey(E.store, k) \/ isExpired(StoreGet(E.store, k), t)
    THEN [ret |-> FALSE, E |-> E]
    ELSE LET entry == StoreGet(E.store, k)
             newEntry == NewEntry(entry.key, entry.value, TRUE, ttl, t)
         IN [ret |-> TRUE, E |-> [E EXCEPT !.store = StorePut(@, newEntry)]]

\* increment counting a hit like the get it replaces
increment_counting(E, k, delta, t) ==
    IF ~HasKey(E.store, k) \/ isExpired(StoreGet(E.store, k), t)
    THEN [ret |-> NullV, E |-> E]
    ELSE LET entry == StoreGet(E.store, k)
             currentValue == entry.value
         IN IF ~isNumber(currentValue)
            THEN [ret |-> NullV, E |-> E]
            ELSE LET newValue == NumV(currentValue.n + delta)
                     remaining == getRemainingTTL(entry, t)
                     newEntry == NewEntry(k, newValue,
                                   remaining # NoExpiry /\ remaining # 0,
                                   remaining, t)
                 IN [ret |-> newValue,
                     E |-> [onAccess([E EXCEPT !.store =
                                        StorePut(@, newEntry)], k)
                              EXCEPT !.stats.hitCount = @ + 1]]

\* increment returns the new number, or null (NullV)
increment(E, k, delta, t) ==
    IF ~HasKey(E.store, k) \/ isExpired(StoreGet(E.store, k), t)
    THEN [ret |-> NullV, E |-> E]
    ELSE LET entry == StoreGet(E.store, k)
             currentValue == entry.value
         IN IF ~isNumber(currentValue)
            THEN [ret |-> NullV, E |-> E]
            ELSE LET newValue == NumV(currentValue.n + delta)
                     remaining == getRemainingTTL(entry, t)
                     newEntry == NewEntry(k, newValue,
                                   remaining # NoExpiry /\ remaining # 0,
                                   remaining, t)
                 IN [ret |-> newValue,
                     E |-> onAccess([E EXCEPT !.store =
                                       StorePut(@, newEntry)], k)]


-----------------------------------------------------------------------------
(* The state machine *)

Eng == [store |-> store, accessOrder |-> accessOrder,
        frequencies |-> frequencies, insertionOrder |-> insertionOrder,
        stats |-> stats]

Commit(E) ==
    /\ store' = E.store
    /\ accessOrder' = E.accessOrder
    /\ frequencies' = E.frequencies
    /\ insertionOrder' = E.insertionOrder
    /\ stats' = E.stats

\* existed: the key was in the store when the call was made
Call(op, k, opt, ok, ret, victims) ==
    [op |-> op, key |-> k, opt |-> opt, ok |-> ok, ret |-> ret,
     victims |-> victims, existed |-> HasKey(store, k)]

\* History of the calls, kept for the active policy only: under LRU the
\* stored keys by their most recent touch, under FIFO the stored keys by
\* their most recent successful set, under LFU the number of uses of each
\* stored key since its most recent successful set.
MoveToEnd(s, k) == Append(SelectSeq(s, LAMBDA x : x # k), k)

RefAfterOn(rf, op, k, ok, st) ==
    LET order == SelectSeq(rf.order, LAMBDA x : HasKey(st, x))
        uses == [x \in DOMAIN rf.uses \cap StoreKeys(st) |-> rf.uses[x]]
        isSet == op = "set" /\ ok
        isAccess == op \in {"get", "increment"} /\ ok
    IN CASE policy = "lru" ->
              [order |-> IF isSet \/ isAccess THEN MoveToEnd(order, k)
                         ELSE order,
               uses |-> rf.uses]
         [] policy = "fifo" ->
              [order |-> IF isSet THEN MoveToEnd(order, k) ELSE order,
               uses |-> rf.uses]
         [] policy = "lfu" ->
              [order |-> rf.order,
               uses |-> IF isSet THEN MapSet(uses, k, 1)
                        ELSE IF isAccess
                        THEN MapSet(uses, k, GetOr0(uses, k) + 1)
                        ELSE uses]
         [] OTHER -> rf

RefAfter(op, k, ok, st) == RefAfterOn(ref, op, k, ok, st)

Step(budget) == steps < budget /\ steps' = steps + 1

Config == <<policy, defaultTTL, maxMemoryBytes>>

Sweeper == <<worker, timers>>

\* intervalId = null
NoTimer == 0

\* Config.cleanupIntervalMs at construction
CleanupIntervalMs == 1000

\* the CleanupWorker after construction; no timer was created yet
InitWorker ==
    /\ worker = [isRunning |-> FALSE, intervalId |-> NoTimer,
                 cleanupIntervalMs |-> CleanupIntervalMs,
                 stats |-> [totalRuns |-> 0, totalExpiredKeys |-> 0,
                            lastRunTime |-> 0, averageRunDuration |-> 0]]
    /\ timers = <<>>

InitEngine ==
    /\ now = 0
    /\ store = <<>>
    /\ accessOrder = <<>>
    /\ frequencies = EmptyMap
    /\ insertionOrder = <<>>
    /\ stats = [hitCount |-> 0, missCount |-> 0, evictionCount |-> 0,
                expiredCount |-> 0, startTime |-> 0]
    /\ last = Call("new", NoKey, NoOptions, TRUE, NullV, <<>>)
    /\ ref = [order |-> <<>>, uses |-> EmptyMap]
    /\ steps = 0

Init ==
    /\ policy \in Policies
    /\ defaultTTL = 0
    /\ maxMemoryBytes = TwoEntries
    /\ InitEngine
    /\ InitWorker

TickOn(ds) ==
    /\ \E d \in ds : now' = now + d
    /\ last' = Call("tick", NoKey, NoOptions, TRUE, NullV, <<>>)
    /\ UNCHANGED <<Config, store, accessOrder, frequencies, insertionOrder,
                   stats, ref, Sweeper>>

SetOn(ks, vs, os) ==
    /\ \E k \in ks, v \in vs, o \in os :
         LET r == set(Eng, k, v, o, now)
         IN /\ Commit(r.E)
            /\ last' = Call("set", k, o, r.ret, v, r.victims)
            /\ ref' = RefAfter("set", k, r.ret, r.E.store)
    /\ UNCHANGED <<Config, now, Sweeper>>

GetOn(ks) ==
    /\ \E k \in ks :
         LET r == get(Eng, k, now)
             hit == r.E.stats.hitCount > stats.hitCount
         IN /\ Commit(r.E)
            /\ last' = Call("get", k, NoOptions, hit, r.ret, <<>>)
            /\ ref' = RefAfter("get", k, hit, r.E.store)
    /\ UNCHANGED <<Config, now, Sweeper>>

DeleteOn(ks) ==
    /\ \E k \in ks :
         LET r == delete(Eng, k)
         IN /\ Commit(r.E)
            /\ last' = Call("delete", k, NoOptions, r.ret, NullV, <<>>)
            /\ ref' = RefAfter("delete", k, r.ret, r.E.store)
    /\ UNCHANGED <<Config, now, Sweeper>>

HasOn(ks) ==
    /\ \E k \in ks :
         LET r == has(Eng, k, now)
         IN /\ Commit(r.E)
            /\ last' = Call("has", k, NoOptions, r.ret, NullV, <<>>)
            /\ ref' = RefAfter("has", k, r.ret, r.E.store)
    /\ UNCHANGED <<Config, now, Sweeper>>

ClearAll ==
    /\ Commit(clear(Eng))
    /\ last' = Call("clear", NoKey, NoOptions, TRUE, NullV, <<>>)
    /\ ref' = RefAfter("clear", NoKey, TRUE, <<>>)
    /\ UNCHANGED <<Config, now, Sweeper>>

CleanupAll ==
    /\ LET r == cleanupExpired(Eng, now)
       IN /\ Commit(r.E)
          /\ last' = Call("cleanupExpired", NoKey, NoOptions, TRUE, NumV(r.ret),
                          <<>>)
          /\ ref' = RefAfter("cleanupExpired", NoKey, TRUE, r.E.store)
    /\ UNCHANGED <<Config, now, Sweeper>>

UpdateTTLOn(ks, ts) ==
    /\ \E k \in ks, ttl \in ts :
         LET r == updateTTL(Eng, k, ttl, now)
         IN /\ Commit(r.E)
            /\ last' = Call("updateTTL", k, NoOptions, r.ret, NumV(ttl), <<>>)
            /\ ref' = RefAfter("updateTTL", k, r.ret, r.E.store)
    /\ UNCHANGED <<Config, now, Sweeper>>

IncrementOn(ks, ds) ==
    /\ \E k \in ks, delta \in ds :
         LET r == increment(Eng, k, delta, now)
             ok == isNumber(r.ret)
         IN /\ Commit(r.E)
            /\ last' = Call("increment", k, NoOptions, ok, r.ret, <<>>)
            /\ ref' = RefAfter("increment", k, ok, r.E.store)
    /\ UNCHANGED <<Config, now, Sweeper>>

\* the number of keys listed is kept in last
KeysCall ==
    /\ \E r \in {keysCall(Eng, now)} :
          /\ Commit(r.E)
          /\ last' = Call("keys", NoKey, NoOptions, TRUE, NumV(Len(r.ret)), <<>>)
          /\ ref' = RefAfter("keys", NoKey, TRUE, r.E.store)
    /\ UNCHANGED <<Config, now, Sweeper>>

\* getStats only reads; the hit rate it returned is kept in last
GetStatsCall ==
    /\ last' = Call("getStats", NoKey, NoOptions, TRUE,
                    NumV(getStats(Eng, now).hitRate), <<>>)
    /\ UNCHANGED <<Config, now, store, accessOrder, frequencies,
                   insertionOrder, stats, ref, Sweeper>>

Tick == Step(MaxSteps) /\ TickOn(TickSteps)

Set ==
    /\ Step(MaxSteps)
    /\ \/ SetOn(Keys, Values, Options({1}, Overwrites))
       \/ SetOn({EmptyKey, LongestKey, TooLongKey}, {NumV(1)}, {NoOptions})

Get == Step(MaxSteps) /\ GetOn(Keys)

Delete == Step(MaxSteps) /\ DeleteOn(Keys)

Has == Step(MaxSteps) /\ HasOn(Keys)

Clear == Step(MaxSteps) /\ ClearAll

CleanupExpired == Step(MaxSteps) /\ CleanupAll

UpdateTTL == Step(MaxSteps) /\ UpdateTTLOn(Keys, {0, 1})

Increment == Step(MaxSteps) /\ IncrementOn(Keys, {1})

GetStats == Step(MaxSteps) /\ GetStatsCall

Next ==
    \/ Tick
    \/ Set
    \/ Get
    \/ Delete
    \/ Has
    \/ Clear
    \/ CleanupExpired
    \/ UpdateTTL
    \/ Increment
    \/ GetStats

Spec == Init /\ [][Next]_vars

-----------------------------------------------------------------------------
(* Claims about the engine's contract, checked under Spec.  A claim about  *)
(* what a call does "in every reachable state" is stated by applying the   *)
(* call's operator to the current state for every input of a probe set.    *)

ProbeOptions == Options({1}, Overwrites)

Fresh == Keys3 \ StoreKeys(store)

\* C1: for every valid key k that is not in the store and every value v,
\* set(k, v) returns success and an immediately following get(k) returns v.
C1_RoundTripNewKey ==
    \A k \in Fresh, v \in Values, o \in ProbeOptions :
        LET r == set(Eng, k, v, o, now)
        IN r.ret /\ get(r.E, k, now).ret = v

\* C2: set(k, v2) without an overwrite option on a key that is in the store
\* returns success and a following get(k) returns v2.
C2_OverwriteByDefault ==
    \A k \in StoreKeys(store), v \in Values :
        LET r == set(Eng, k, v, NoOptions, now)
        IN r.ret /\ get(r.E, k, now).ret = v

C4_KeyLengthLimits ==
    /\ \A k \in {EmptyKey, TooLongKey}, v \in Values, o \in ProbeOptions :
           LET r == set(Eng, k, v, o, now)
           IN ~r.ret /\ r.E = Eng
    /\ \A k \in Keys3 \cup {LongestKey} :
           /\ KeyLength(k) \in 1..MaxKeyLength
           /\ isValidKey(k)
           /\ (~HasKey(store, k) /\ ~shouldEvict(Eng))
                 => set(Eng, k, NumV(1), NoOptions, now).ret

C4_Witness ==
    /\ last.op = "set"
    /\ last.key = TooLongKey
    /\ ~last.ok
    /\ HasKey(store, LongestKey)

\* C7: increment on a key whose value is not a number returns null and
\* leaves the entry, the strategy bookkeeping and the counters unchanged.
C7_IncrementNonNumeric ==
    \A k \in StoreKeys(store), delta \in {-1, 1} :
        StoreGet(store, k).value.t # "number" =>
            LET r == increment(Eng, k, delta, now)
            IN r.ret = NullV /\ r.E = Eng

C7_Witness ==
    /\ last.op = "increment"
    /\ last.existed
    /\ ~last.ok
    /\ HasKey(store, last.key)
    /\ StoreGet(store, last.key).value.t = "string"
    /\ ~isExpired(StoreGet(store, last.key), now)

-----------------------------------------------------------------------------
(* Claims about TTLs, checked under SpecTTL: both a zero and a positive    *)
(* default TTL, explicit TTLs that are negative, zero and positive, and a  *)
(* clock that moves in half seconds and seconds.                           *)

InitTTL ==
    /\ policy \in Policies
    /\ defaultTTL \in DefaultTTLs
    /\ maxMemoryBytes = TwoEntries
    /\ InitEngine
    /\ InitWorker

TtlTick == Step(MaxStepsTTL) /\ TickOn({500, 1000})

TtlSet ==
    Step(MaxStepsTTL) /\ SetOn(Keys, {NumV(1)}, Options(TTLs, {"true"}))

TtlGet == Step(MaxStepsTTL) /\ GetOn(Keys)

TtlDelete == Step(MaxStepsTTL) /\ DeleteOn(Keys)

TtlHas == Step(MaxStepsTTL) /\ HasOn(Keys)

TtlCleanupExpired == Step(MaxStepsTTL) /\ CleanupAll

TtlUpdateTTL == Step(MaxStepsTTL) /\ UpdateTTLOn(Keys, {0, 1})

TtlIncrement == Step(MaxStepsTTL) /\ IncrementOn(Keys, {1})

NextTTL ==
    \/ TtlTick
    \/ TtlSet
    \/ TtlGet
    \/ TtlDelete
    \/ TtlHas
    \/ TtlCleanupExpired
    \/ TtlUpdateTTL
    \/ TtlIncrement

SpecTTL == InitTTL /\ [][NextTTL]_vars

\* times at and after now at which a later call is probed
Later == {now, now + 1000, now + 3600001}

\* C5: the TTL of a set is the explicit ttl if one is given, else the
\* default TTL; a positive TTL gives expiry at now + 1000 * ttl, a zero or
\* negative one gives an entry without expiry, which get and has find at
\* every later time and cleanupExpired never removes.
C5_TTLResolution ==
    /\ \A k \in Keys, v \in Values, o \in Options({-1, 0, 1, 2}, {"true"}) :
           LET r == set(Eng, k, v, o, now)
               ttl == IF o.ttlGiven THEN o.ttl ELSE defaultTTL
               e == StoreGet(r.E.store, k)
           IN r.ret =>
                /\ e.value = v
                /\ ttl > 0 => e.expiresAt = now + 1000 * ttl
                /\ ttl <= 0 =>
                     /\ e.expiresAt = NoExpiry
                     /\ \A t \in Later :
                            /\ get(r.E, k, t).ret = v
                            /\ has(r.E, k, t).ret
                            /\ HasKey(cleanupExpired(r.E, t).E.store, k)
    /\ \A i \in 1..Len(store) :
           store[i].expiresAt = NoExpiry =>
               \A t \in Later :
                   /\ get(Eng, store[i].key, t).ret = store[i].value
                   /\ has(Eng, store[i].key, t).ret
                   /\ HasKey(cleanupExpired(Eng, t).E.store, store[i].key)

C5_Witness ==
    /\ last.op = "get"
    /\ last.ok
    /\ defaultTTL > 0
    /\ now >= 1500
    /\ StoreGet(store, last.key).createdAt = 0
    /\ StoreGet(store, last.key).expiresAt = NoExpiry

\* C6: an entry set at time c with TTL t > 0 is returned by get at every
\* time before c + 1000 * t; at every time after c + 1000 * t get returns
\* null and the entry is gone from the store when get returns.
C6_ExpiryOnRead ==
    /\ \A k \in Keys, v \in Values, o \in Options({1, 2}, {"true"}) :
           LET r == set(Eng, k, v, o, now)
               ttl == IF o.ttlGiven THEN o.ttl ELSE defaultTTL
               c == now
           IN (r.ret /\ ttl > 0) =>
                \A t \in {c, c + 1000 * ttl - 1, c + 1000 * ttl + 1,
                           c + 1000 * ttl + 3600000} :
                    LET g == get(r.E, k, t)
                    IN /\ t < c + 1000 * ttl => g.ret = v
                       /\ t > c + 1000 * ttl =>
                            g.ret = NullV /\ ~HasKey(g.E.store, k)
    /\ \A i \in 1..Len(store) :
           LET e == store[i]
               g == get(Eng, e.key, now)
           IN e.expiresAt # NoExpiry =>
                /\ now < e.expiresAt => g.ret = e.value
                /\ now > e.expiresAt =>
                     g.ret = NullV /\ ~HasKey(g.E.store, e.key)

C6_Witness ==
    /\ last.op = "get"
    /\ last.existed
    /\ ~last.ok
    /\ last.ret = NullV
    /\ ~HasKey(store, last.key)
    /\ stats.expiredCount = 1
    /\ stats.missCount = 1

-----------------------------------------------------------------------------
(* Claims about the eviction order.  SpecLRU is an LRU engine driven by    *)
(* set, get, has, delete, increment, updateTTL and cleanupExpired; SpecLFU *)
(* is an LFU engine driven by the same calls and clear.                    *)

InitLRU ==
    /\ policy = "lru"
    /\ defaultTTL = 0
    /\ maxMemoryBytes = TwoEntries
    /\ InitEngine
    /\ InitWorker

InitLFU ==
    /\ policy = "lfu"
    /\ defaultTTL = 0
    /\ maxMemoryBytes = ThreeEntries
    /\ InitEngine
    /\ InitWorker

EvTick == Step(MaxStepsEv) /\ TickOn({1000})

EvSet == Step(MaxStepsEv) /\ SetOn(Keys3, Values, Options({1}, {"true"}))

EvGet == Step(MaxStepsEv) /\ GetOn(Keys3)

EvDelete == Step(MaxStepsEv) /\ DeleteOn(Keys3)

EvHas == Step(MaxStepsEv) /\ HasOn(Keys3)

EvCleanupExpired == Step(MaxStepsEv) /\ CleanupAll

EvUpdateTTL == Step(MaxStepsEv) /\ UpdateTTLOn(Keys3, {1})

EvIncrement == Step(MaxStepsEv) /\ IncrementOn(Keys3, {1})

NextLRU ==
    \/ EvTick
    \/ EvSet
    \/ EvGet
    \/ EvDelete
    \/ EvHas
    \/ EvCleanupExpired
    \/ EvUpdateTTL
    \/ EvIncrement

LfuTick == Step(MaxStepsLFU) /\ TickOn({1000})

LfuSet == Step(MaxStepsLFU) /\ SetOn(Keys3, Values, Options({1}, {"true"}))

LfuGet == Step(MaxStepsLFU) /\ GetOn(Keys3)

LfuDelete == Step(MaxStepsLFU) /\ DeleteOn(Keys3)

LfuHas == Step(MaxStepsLFU) /\ HasOn(Keys3)

LfuCleanupExpired == Step(MaxStepsLFU) /\ CleanupAll

LfuUpdateTTL == Step(MaxStepsLFU) /\ UpdateTTLOn(Keys3, {1})

LfuIncrement == Step(MaxStepsLFU) /\ IncrementOn(Keys3, {1})

LfuClear == Step(MaxStepsLFU) /\ ClearAll

NextLFU ==
    \/ LfuTick
    \/ LfuSet
    \/ LfuGet
    \/ LfuDelete
    \/ LfuHas
    \/ LfuCleanupExpired
    \/ LfuUpdateTTL
    \/ LfuIncrement
    \/ LfuClear

SpecLRU == InitLRU /\ [][NextLRU]_vars

SpecLFU == InitLFU /\ [][NextLFU]_vars

Keys4 == Keys3 \cup {"D"}

NewEngine ==
    [store |-> <<>>, accessOrder |-> <<>>, frequencies |-> EmptyMap,
     insertionOrder |-> <<>>,
     stats |-> [hitCount |-> 0, missCount |-> 0, evictionCount |-> 0,
                expiredCount |-> 0, startTime |-> 0]]

\* C8: under LRU, the first victim of a set of a new key is the stored key
\* whose most recent touch (successful set, successful get, increment) is
\* the oldest; with room for two entries, set A, set B, get A, set C evicts
\* B and keeps A.
C8_LRUVictim ==
    /\ \A k \in Keys4 \ StoreKeys(store), v \in Values, o \in {NoOptions} :
           LET r == set(Eng, k, v, o, now)
           IN r.victims # <<>> => r.victims[1] = Head(ref.order)
    /\ LET E1 == set(NewEngine, "A", NumV(1), NoOptions, 0).E
           E2 == set(E1, "B", NumV(1), NoOptions, 0).E
           E3 == get(E2, "A", 0).E
           r == set(E3, "C", NumV(1), NoOptions, 0)
       IN r.ret /\ r.victims = <<"B">> /\ StoreKeys(r.E.store) = {"A", "C"}

C8_Witness ==
    /\ last.op = "set"
    /\ last.key = "C"
    /\ last.victims = <<"B">>
    /\ StoreKeys(store) = {"A", "C"}
    /\ StoreGet(store, "A").accessCount = 1
    /\ accessOrder = <<"A", "C">>
    /\ steps = 4

\* C9: under FIFO, the first victim of a set of a new key is the stored key
\* whose most recent successful set is the oldest, whatever get and has
\* calls were made.
C9_FIFOVictim ==
    policy = "fifo" =>
        \A k \in Keys4 \ StoreKeys(store), v \in Values, o \in {NoOptions} :
            LET r == set(Eng, k, v, o, now)
            IN r.victims # <<>> => r.victims[1] = Head(ref.order)

Uses(k) == GetOr0(ref.uses, k)

\* C10: under LFU, the victim of a set of a new key is a stored key of
\* minimal frequency (1 at its insert plus 1 for each later get or
\* increment), and among the keys of that frequency one whose
\* lastAccessedAt is the oldest; with A, B and C inserted, A read twice and
\* C read once, the insert of a fourth key evicts B.
C10_LFUVictim ==
    /\ \A k \in Keys4 \ StoreKeys(store), v \in Values, o \in {NoOptions} :
           LET r == set(Eng, k, v, o, now)
               w == r.victims[1]
           IN r.victims # <<>> =>
                /\ HasKey(store, w)
                /\ \A x \in StoreKeys(store) :
                       /\ Uses(w) <= Uses(x)
                       /\ Uses(x) = Uses(w) =>
                            StoreGet(store, w).lastAccessedAt
                              <= StoreGet(store, x).lastAccessedAt
    /\ LET E1 == set(NewEngine, "A", NumV(1), NoOptions, 0).E
           E2 == set(E1, "B", NumV(1), NoOptions, 0).E
           E3 == set(E2, "C", NumV(1), NoOptions, 0).E
           E4 == get(E3, "A", 0).E
           E5 == get(E4, "A", 0).E
           E6 == get(E5, "C", 0).E
           r == set(E6, "D", NumV(1), NoOptions, 0)
       IN r.ret /\ r.victims = <<"B">>
            /\ StoreKeys(r.E.store) = {"A", "C", "D"}

\* set A, set B, get A and the set of a third key, all at time 0: B is
\* evicted for its frequency of 1, A with its frequency of 2 is kept
C10_Witness ==
    /\ last.op = "set"
    /\ ~last.existed
    /\ last.victims = <<"B">>
    /\ HasKey(store, "A")
    /\ Uses("A") = 2
    /\ StoreGet(store, "A").lastAccessedAt = 0
    /\ now = 0
    /\ steps = 4

\* the same calls under FIFO without a clear, for comparison with C9
InitFIFO ==
    /\ policy = "fifo"
    /\ defaultTTL = 0
    /\ maxMemoryBytes = TwoEntries
    /\ InitEngine
    /\ InitWorker

SpecFIFONoClear == InitFIFO /\ [][NextLRU]_vars

-----------------------------------------------------------------------------
(* Claims about the None policy, the sweep, the statistics and clear,      *)
(* checked under Spec.                                                     *)

\* the options under which set may replace a key that is in the store
Permitted(k) ==
    IF HasKey(store, k) THEN Options({1}, {"true"}) ELSE ProbeOptions

\* C11: under the None policy evictionCount is 0, a set of a valid key with
\* overwrite permitted succeeds whatever the memory usage, evicts nothing
\* and leaves every other stored entry as it was.
C11_NoneNeverEvicts ==
    policy = "none" =>
        /\ stats.evictionCount = 0
        /\ \A k \in ValidKeys, v \in Values :
             \A o \in Permitted(k) :
               LET r == set(Eng, k, v, o, now)
               IN /\ r.ret
                  /\ r.victims = <<>>
                  /\ r.E.stats.evictionCount = 0
                  /\ StoreKeys(r.E.store) = StoreKeys(store) \cup {k}
                  /\ \A x \in StoreKeys(store) \ {k} :
                         StoreGet(r.E.store, x) = StoreGet(store, x)
                  /\ StoreGet(r.E.store, k).value = v

\* three successful sets under None, the store far above the ceiling
C11_Witness ==
    /\ policy = "none"
    /\ last.op = "set"
    /\ last.ok
    /\ Len(store) = 3
    /\ calculateMemoryUsage(Eng) > 4 * maxMemoryBytes
    /\ stats.evictionCount = 0

-----------------------------------------------------------------------------
(* Claims about the sweep, checked under SpecTTL *)

\* the entry has an expiry time and t is after it
ExpiredAt(e, t) == e.expiresAt # NoExpiry /\ t > e.expiresAt

\* C12: cleanupExpired removes exactly the entries that are expired at the
\* time of the call, returns how many it removed and adds that to
\* expiredCount; called again at the same time it returns 0 and changes
\* nothing.
C12_CleanupExact ==
    \A t \in Later :
        LET r == cleanupExpired(Eng, t)
            again == cleanupExpired(r.E, t)
        IN /\ r.E.store = SelectSeq(store, LAMBDA e : ~ExpiredAt(e, t))
           /\ r.ret = Len(store) - Len(r.E.store)
           /\ r.E.stats.expiredCount = stats.expiredCount + r.ret
           /\ again.ret = 0
           /\ again.E = r.E

\* a sweep that removed one expired entry
C12_Witness ==
    /\ last.op = "cleanupExpired"
    /\ last.ret = NumV(1)
    /\ stats.expiredCount = 1
    /\ store = <<>>
    /\ now > 1000

-----------------------------------------------------------------------------
(* Claims about the statistics, checked under SpecStats: sets, gets and    *)
(* getStats calls, enough of them for two hits and a miss.                 *)

StSet == Step(MaxStepsStats) /\ SetOn(Keys, {NumV(1)}, {NoOptions})

StGet == Step(MaxStepsStats) /\ GetOn(Keys)

StGetStats == Step(MaxStepsStats) /\ GetStatsCall

NextStats ==
    \/ StSet
    \/ StGet
    \/ StGetStats

SpecStats == Init /\ [][NextStats]_vars

\* the hit rate r, in hundredths, is 100 * h / (h + m) rounded to two
\* decimals
IsRoundedRate(r, h, m) ==
    /\ 2 * (h + m) * r - 20000 * h <= h + m
    /\ 20000 * h - 2 * (h + m) * r <= h + m

\* C13: getStats().hitRate is 100 * hitCount / (hitCount + missCount)
\* rounded to two decimals, and 0 when there were no gets; two hits and one
\* miss give 66.67; a getStats call changes no counter and nothing else of
\* the engine.
C13_HitRate ==
    /\ [](LET s == getStats(Eng, now)
              h == stats.hitCount
              m == stats.missCount
          IN /\ s.hitCount = h
             /\ s.missCount = m
             /\ h + m = 0 => s.hitRate = 0
             /\ h + m > 0 => IsRoundedRate(s.hitRate, h, m)
             /\ (h = 2 /\ m = 1) => s.hitRate = 6667)
    /\ [][last'.op = "getStats" =>
            UNCHANGED <<store, accessOrder, frequencies, insertionOrder,
                        stats, now>>]_vars

\* getStats called after two hits and one miss
C13_Witness ==
    /\ last.op = "getStats"
    /\ stats.hitCount = 2
    /\ stats.missCount = 1
    /\ last.ret = NumV(6667)

-----------------------------------------------------------------------------
(* POST /api/v1/cache/batch: validateBatchPayload, then                    *)
(* CacheController.batchSet.  A batch is the sequence of its operations;   *)
(* an operation is a key, a value and an optional ttl.                     *)

MaxBatchSize == 100

MaxPayloadTTL == 86400 * 365

\* /^[a-zA-Z0-9_:-]+$/, on the keys of the model
MatchesKeyPattern(k) == KeyLength(k) > 0 /\ k # SpacedKey

BatchOp(k, v) == [key |-> k, value |-> v, ttlGiven |-> FALSE, ttl |-> 0]

BatchOps ==
    {BatchOp(k, v) : k \in Keys, v \in Values}
      \cup {BatchOp(EmptyKey, NumV(1)), BatchOp(SpacedKey, NumV(1))}

Batches == UNION {[1..n -> BatchOps] : n \in 0..MaxBatchLen}

validateBatchPayload(ops) ==
    /\ Len(ops) >= 1
    /\ Len(ops) <= MaxBatchSize
    /\ \A i \in 1..Len(ops) :
           /\ KeyLength(ops[i].key) >= 1
           /\ KeyLength(ops[i].key) <= MaxKeyLength
           /\ MatchesKeyPattern(ops[i].key)
           /\ ops[i].ttlGiven => ops[i].ttl \in 0..MaxPayloadTTL

\* the for loop of batchSet; victims and rf are history, not program state.
\* The result of each set is bound by a quantifier over a singleton, so that
\* it is computed once.
RECURSIVE BatchLoop(_, _, _, _, _, _)
BatchLoop(E, ops, t, results, victims, rf) ==
    IF ops = <<>>
    THEN [E |-> E, results |-> results, victims |-> victims, ref |-> rf]
    ELSE CHOOSE b \in
           {BatchLoop(r.E, Tail(ops), t,
                      Append(results,
                             [key |-> Head(ops).key, success |-> r.ret]),
                      victims \o r.victims,
                      RefAfterOn(rf, "set", Head(ops).key, r.ret, r.E.store)) :
              r \in {set(E, Head(ops).key, Head(ops).value,
                         [ttlGiven |-> Head(ops).ttlGiven,
                          ttl |-> Head(ops).ttl, overwrite |-> "true"], t)}} :
           TRUE

batchSet(E, ops, t) ==
    LET b == BatchLoop(E, ops, t, <<>>, <<>>, ref)
        successCount == Len(SelectSeq(b.results, LAMBDA r : r.success))
    IN [status |-> 200, results |-> b.results, total |-> Len(ops),
        successful |-> successCount, failed |-> Len(ops) - successCount,
        E |-> b.E, victims |-> b.victims, ref |-> b.ref]

\* the route: a payload that fails validation is answered with status 400
\* and no data, and batchSet is not called
postBatch(E, ops, t) ==
    IF validateBatchPayload(ops)
    THEN batchSet(E, ops, t)
    ELSE [status |-> 400, results |-> <<>>, total |-> 0, successful |-> 0,
          failed |-> 0, E |-> E, victims |-> <<>>, ref |-> ref]

BatchOn(bs) ==
    /\ \E ops \in bs :
         \E r \in {postBatch(Eng, ops, now)} :
            /\ Commit(r.E)
            /\ last' = Call("batch", NoKey, NoOptions, r.status = 200,
                            NumV(r.successful), r.victims)
            /\ ref' = r.ref
    /\ UNCHANGED <<Config, now, Sweeper>>

BtPost == Step(MaxStepsBatch) /\ BatchOn(Batches)

BtGet == Step(MaxStepsBatch) /\ GetOn(Keys)

NextBatch ==
    \/ BtPost
    \/ BtGet

SpecBatch == Init /\ [][NextBatch]_vars

\* the number of operations of the batch whose set fails
Failing(E, ops, t) ==
    Len(SelectSeq(BatchLoop(E, ops, t, <<>>, <<>>, ref).results,
                  LAMBDA r : ~r.success))

\* C14: a batch of N operations of which M fail is answered with total = N,
\* successful = N - M and failed = M, and afterwards get of the key of
\* every operation reported as successful returns that operation's value.
C14_BatchReport ==
    \A ops \in Batches \ {<<>>} :
        LET r == postBatch(Eng, ops, now)
            N == Len(ops)
            M == Failing(Eng, ops, now)
        IN /\ r.status = 200
           /\ r.total = N
           /\ r.successful = N - M
           /\ r.failed = M
           /\ \A i \in 1..Len(r.results) :
                  r.results[i].success =>
                      get(r.E, ops[i].key, now).ret = ops[i].value

-----------------------------------------------------------------------------
(* More claims checked under Spec *)

\* C15: after clear, from any reachable state, keys() is empty, size() is 0,
\* getStats().totalKeys is 0 and get of every key returns null.
C15_ClearEmpties ==
    /\ LET E1 == clear(Eng)
       IN /\ keys(E1, now) = <<>>
          /\ size(E1) = 0
          /\ getStats(E1, now).totalKeys = 0
          /\ \A k \in AllKeys : get(E1, k, now).ret = NullV
    /\ last.op = "clear" =>
         /\ keys(Eng, now) = <<>>
         /\ size(Eng) = 0
         /\ getStats(Eng, now).totalKeys = 0
         /\ \A k \in AllKeys : get(Eng, k, now).ret = NullV

\* clear called on an LRU engine that held two keys
C15_Witness ==
    /\ last.op = "clear"
    /\ policy = "lru"
    /\ Len(accessOrder) = 2
    /\ store = <<>>


\* C16: a set of a valid key with overwrite permitted never fails for lack
\* of memory: when eviction finds no victim or does not get below the
\* ceiling the entry is inserted all the same.
C16_NoEvictionFailure ==
    \A k \in ValidKeys, v \in Values :
        \A o \in Permitted(k) :
            LET r == set(Eng, k, v, o, now)
            IN r.ret /\ HasKey(r.E.store, k) /\ StoreGet(r.E.store, k).value = v

\* the keys the active strategy tracks
Tracked(E) ==
    CASE policy = "lru" -> {E.accessOrder[i] : i \in 1..Len(E.accessOrder)}
      [] policy = "fifo" ->
           {E.insertionOrder[i] : i \in 1..Len(E.insertionOrder)}
      [] policy = "lfu" -> DOMAIN E.frequencies
      [] OTHER -> {}

\* C17: when set returns failure, the store, the bookkeeping of the active
\* strategy and the eviction counter are what they were before the call.
C17_NoPartialState ==
    \A k \in AllKeys, v \in Values, o \in ProbeOptions :
        LET r == set(Eng, k, v, o, now)
        IN ~r.ret =>
             /\ r.E.store = store
             /\ r.E.accessOrder = accessOrder
             /\ r.E.frequencies = frequencies
             /\ r.E.insertionOrder = insertionOrder
             /\ r.E.stats.evictionCount = stats.evictionCount

\* C18: under LRU, LFU and FIFO, after every engine operation the keys the
\* active strategy tracks are the keys of the store.
C18_TrackedIsStored ==
    policy # "none" => Tracked(Eng) = StoreKeys(store)


\* C19: no step (an engine operation, clear included, or a sweep) lowers
\* hitCount, missCount, evictionCount or expiredCount.
C19_CountersMonotone ==
    [][/\ stats'.hitCount >= stats.hitCount
       /\ stats'.missCount >= stats.missCount
       /\ stats'.evictionCount >= stats.evictionCount
       /\ stats'.expiredCount >= stats.expiredCount]_vars

\* clear called after a hit and a miss were counted
C19_Witness ==
    /\ last.op = "clear"
    /\ stats.hitCount = 1
    /\ stats.missCount = 1
    /\ store = <<>>

-----------------------------------------------------------------------------
(* CleanupWorker (src/src/workers/CleanupWorker.ts).  W is the record of   *)
(* the worker's fields and of the timers of the runtime: timers[id] is the *)
(* timer setInterval returned as id, with its interval, the time it fires  *)
(* next and whether clearInterval was called on it.                        *)

Wk == [worker |-> worker, timers |-> timers]

setInterval(ts, ms, t) ==
    Append(ts, [ms |-> ms, due |-> t + ms, live |-> TRUE])

clearInterval(ts, id) == [ts EXCEPT ![id].live = FALSE]

LiveTimers(ts) == {id \in 1..Len(ts) : ts[id].live}

\* start without the check of isRunning
start_unguarded(W, t) ==
    [worker |-> [W.worker EXCEPT !.isRunning = TRUE,
                                 !.intervalId = Len(W.timers) + 1],
     timers |-> setInterval(W.timers, W.worker.cleanupIntervalMs, t)]

start(W, t) ==
    IF W.worker.isRunning THEN W
    ELSE [worker |-> [W.worker EXCEPT !.isRunning = TRUE,
                                      !.intervalId = Len(W.timers) + 1],
          timers |-> setInterval(W.timers, W.worker.cleanupIntervalMs, t)]

stop(W) ==
    IF ~W.worker.isRunning THEN W
    ELSE [worker |-> [W.worker EXCEPT !.isRunning = FALSE,
                                      !.intervalId = NoTimer],
          timers |-> IF W.worker.intervalId # NoTimer
                     THEN clearInterval(W.timers, W.worker.intervalId)
                     ELSE W.timers]

\* thrown is the Error of a non-positive interval
updateInterval(W, intervalMs, t) ==
    IF intervalMs <= 0 THEN [W |-> W, thrown |-> TRUE]
    ELSE LET wasRunning == W.worker.isRunning
             W1 == IF wasRunning THEN stop(W) ELSE W
             W2 == [W1 EXCEPT !.worker.cleanupIntervalMs = intervalMs]
         IN [W |-> IF wasRunning THEN start(W2, t) ELSE W2,
             thrown |-> FALSE]

\* a pass that removed nothing left out of the statistics
updateStats_idle(w, expiredCount, duration, t) ==
    IF expiredCount = 0 THEN w
    ELSE LET runs == w.stats.totalRuns + 1
         IN [w EXCEPT !.stats =
                 [totalRuns |-> runs,
                  totalExpiredKeys |-> @.totalExpiredKeys + expiredCount,
                  lastRunTime |-> t,
                  averageRunDuration |->
                      Round(@.averageRunDuration * (runs - 1) + duration, runs)]]

updateStats(w, expiredCount, duration, t) ==
    LET runs == w.stats.totalRuns + 1
    IN [w EXCEPT !.stats =
            [totalRuns |-> runs,
             totalExpiredKeys |-> @.totalExpiredKeys + expiredCount,
             lastRunTime |-> t,
             averageRunDuration |->
                 Round(@.averageRunDuration * (runs - 1) + duration, runs)]]

\* the clock does not move during a call: the duration of a run is 0
performCleanup(W, E, t) ==
    LET c == cleanupExpired(E, t)
    IN [W |-> [W EXCEPT !.worker = updateStats(@, c.ret, 0, t)],
        E |-> c.E, expiredKeysRemoved |-> c.ret]

forceCleanup(W, E, t) == performCleanup(W, E, t)

CommitWorker(W) == worker' = W.worker /\ timers' = W.timers

EngineVars == <<store, accessOrder, frequencies, insertionOrder, stats>>

WorkerStart ==
    /\ CommitWorker(start(Wk, now))
    /\ last' = Call("start", NoKey, NoOptions, ~worker.isRunning, NullV, <<>>)
    /\ UNCHANGED <<Config, now, EngineVars, ref>>

WorkerStop ==
    /\ CommitWorker(stop(Wk))
    /\ last' = Call("stop", NoKey, NoOptions, worker.isRunning, NullV, <<>>)
    /\ UNCHANGED <<Config, now, EngineVars, ref>>

WorkerUpdateInterval(mss) ==
    /\ \E ms \in mss :
         LET r == updateInterval(Wk, ms, now)
         IN /\ CommitWorker(r.W)
            /\ last' = Call("updateInterval", NoKey, NoOptions, ~r.thrown,
                            NumV(ms), <<>>)
    /\ UNCHANGED <<Config, now, EngineVars, ref>>

WorkerForceCleanup ==
    /\ LET r == forceCleanup(Wk, Eng, now)
       IN /\ CommitWorker(r.W)
          /\ Commit(r.E)
          /\ last' = Call("forceCleanup", NoKey, NoOptions, TRUE,
                          NumV(r.expiredKeysRemoved), <<>>)
          /\ ref' = RefAfter("cleanupExpired", NoKey, TRUE, r.E.store)
    /\ UNCHANGED <<Config, now>>

\* the callback of a live timer that is due
TimerFires ==
    /\ \E id \in LiveTimers(timers) :
         /\ now >= timers[id].due
         /\ LET r == performCleanup(Wk, Eng, now)
            IN /\ worker' = r.W.worker
               /\ timers' = [timers EXCEPT ![id].due = @ + timers[id].ms]
               /\ Commit(r.E)
               /\ last' = Call("timer", NoKey, NoOptions, TRUE,
                               NumV(r.expiredKeysRemoved), <<>>)
               /\ ref' = RefAfter("cleanupExpired", NoKey, TRUE, r.E.store)
    /\ UNCHANGED <<Config, now>>

Intervals == {0, 500, 1000}

WkStart == Step(MaxStepsWorker) /\ WorkerStart

WkStop == Step(MaxStepsWorker) /\ WorkerStop

WkUpdateInterval == Step(MaxStepsWorker) /\ WorkerUpdateInterval(Intervals)

WkForceCleanup == Step(MaxStepsWorker) /\ WorkerForceCleanup

WkTimerFires == Step(MaxStepsWorker) /\ TimerFires

WkTick == Step(MaxStepsWorker) /\ TickOn({500, 1000})

WkSet ==
    Step(MaxStepsWorker) /\ SetOn({"A"}, {NumV(1)}, Options({1}, {"true"}))

NextWorker ==
    \/ WkStart
    \/ WkStop
    \/ WkUpdateInterval
    \/ WkForceCleanup
    \/ WkTimerFires
    \/ WkTick
    \/ WkSet

InitSweeper ==
    /\ policy = "lru"
    /\ defaultTTL = 0
    /\ maxMemoryBytes = TwoEntries
    /\ InitEngine
    /\ InitWorker

SpecWorker == InitSweeper /\ [][NextWorker]_vars

\* C20: at most one repeating timer is live, and isRunning is true exactly
\* when one is; start while running and stop while stopped change nothing;
\* updateInterval on a running sweeper clears the old timer and creates one
\* with the new interval, without changing the old timer's interval, and on
\* a stopped sweeper creates no timer.
C20_TimerDiscipline ==
    /\ Cardinality(LiveTimers(timers)) <= 1
    /\ worker.isRunning <=> LiveTimers(timers) # {}
    /\ worker.isRunning => LiveTimers(timers) = {worker.intervalId}
    /\ worker.isRunning => start(Wk, now) = Wk
    /\ ~worker.isRunning => stop(Wk) = Wk
    /\ \A ms \in {500, 1000, 2000} :
           LET r == updateInterval(Wk, ms, now).W
           IN /\ r.worker.isRunning = worker.isRunning
              /\ r.worker.cleanupIntervalMs = ms
              /\ ~worker.isRunning => r.timers = timers
              /\ worker.isRunning =>
                   /\ Len(r.timers) = Len(timers) + 1
                   /\ LiveTimers(r.timers) = {Len(r.timers)}
                   /\ r.timers[Len(r.timers)].ms = ms
                   /\ \A id \in 1..Len(timers) :
                          /\ r.timers[id].ms = timers[id].ms
                          /\ ~r.timers[id].live
    /\ forceCleanup(Wk, Eng, now).W.timers = timers

\* updateInterval called on a running sweeper with another interval
C20_Witness ==
    /\ last.op = "updateInterval"
    /\ last.ok
    /\ worker.isRunning
    /\ Len(timers) = 2
    /\ ~timers[1].live
    /\ timers[2].live
    /\ timers[2].ms # timers[1].ms
    /\ worker.intervalId = 2

-----------------------------------------------------------------------------
(* The routes of /cache/:key (createRoutes, src/unnamed/part_002 lines     *)
(* 11-62) and their controllers.  The router tries the routes in the order *)
(* of registration; a route registered with router.get also handles a HEAD *)
(* request, as Express does for a route that has no HEAD handler of its    *)
(* own.  The rate limiter (1000 requests a minute) is not reached.         *)

KeyRoutes ==
    <<[method |-> "GET", handler |-> "get"],
      [method |-> "DELETE", handler |-> "delete"],
      [method |-> "HEAD", handler |-> "exists"]>>

handlesMethod(route, m) ==
    route.method = m \/ (m = "HEAD" /\ route.method = "GET")

\* the handler of the first route that handles the method
Dispatch(m) ==
    LET i == CHOOSE i \in 1..Len(KeyRoutes) :
                 /\ handlesMethod(KeyRoutes[i], m)
                 /\ \A j \in 1..(i - 1) : ~handlesMethod(KeyRoutes[j], m)
    IN KeyRoutes[i].handler

validateKey(k) ==
    KeyLength(k) >= 1 /\ KeyLength(k) <= MaxKeyLength /\ MatchesKeyPattern(k)

\* the answer of a request to /cache/:key: its status and the engine after
keyRequest(E, m, k, t) ==
    IF ~validateKey(k) THEN [status |-> 400, E |-> E]
    ELSE CASE Dispatch(m) = "get" ->
                LET r == get(E, k, t)
                IN [status |-> IF r.ret = NullV THEN 404 ELSE 200, E |-> r.E]
           [] Dispatch(m) = "delete" ->
                LET r == delete(E, k)
                IN [status |-> IF r.ret THEN 200 ELSE 404, E |-> r.E]
           [] Dispatch(m) = "exists" ->
                [status |-> 200, E |-> has(E, k, t).E]

KeyRequestOn(ms, ks) ==
    /\ \E m \in ms, k \in ks :
         \E r \in {keyRequest(Eng, m, k, now)} :
            /\ Commit(r.E)
            /\ last' = Call(m, k, NoOptions, r.status = 200, NumV(r.status),
                            <<>>)
            /\ ref' = RefAfter(IF Dispatch(m) = "get" THEN "get" ELSE "delete",
                               k, r.E.stats.hitCount > stats.hitCount,
                               r.E.store)
    /\ UNCHANGED <<Config, now, Sweeper>>

ApiRequest ==
    Step(MaxStepsApi)
      /\ KeyRequestOn({"GET", "HEAD", "DELETE"}, Keys \cup {SpacedKey})

ApiSet ==
    Step(MaxStepsApi)
      /\ SetOn(Keys \cup {SpacedKey}, {NumV(1), NullV}, Options({1}, {"true"}))

ApiTick == Step(MaxStepsApi) /\ TickOn({500, 1000})

NextApi ==
    \/ ApiRequest
    \/ ApiSet
    \/ ApiTick

SpecApi == Init /\ [][NextApi]_vars

\* C21: HEAD /cache/:key answers 200 when the key is in the store and not
\* expired, and 404 when it is absent or expired.
C21_HeadStatus ==
    \A k \in Keys :
        LET r == keyRequest(Eng, "HEAD", k, now)
            live == HasKey(store, k) /\ ~ExpiredAt(StoreGet(store, k), now)
        IN /\ live => r.status = 200
           /\ ~live => r.status = 404

-----------------------------------------------------------------------------
(* Claims about the eviction loop, checked under SpecBulk: an engine with  *)
(* a larger ceiling, filled through one batch request with eleven small    *)
(* entries and one entry that alone is above the ceiling.                  *)

BulkKeys ==
    <<"k01", "k02", "k03", "k04", "k05", "k06", "k07", "k08", "k09", "k10",
      "k11">>

HugeLen == 1000

\* above the eleven small entries (825 bytes), below the huge one (1067)
BulkCeiling == 900

BulkBatch ==
    [i \in 1..Len(BulkKeys) |-> BatchOp(BulkKeys[i], NumV(1))]
      \o <<BatchOp("big", StrV(1, HugeLen))>>

InitBulk ==
    /\ policy \in Policies \ {"none"}
    /\ defaultTTL = 0
    /\ maxMemoryBytes = BulkCeiling
    /\ InitEngine
    /\ InitWorker

BulkPost ==
    Step(MaxStepsBulk) /\ BatchOn({BulkBatch, <<BatchOp("A", NumV(1))>>})

BulkSet ==
    Step(MaxStepsBulk)
      /\ SetOn({"A", "B", "k01"}, Values, Options({1}, {"true"}))

BulkGet == Step(MaxStepsBulk) /\ GetOn({"k01", "k02", "big"})

NextBulk ==
    \/ BulkPost
    \/ BulkSet
    \/ BulkGet

SpecBulk == InitBulk /\ [][NextBulk]_vars

\* C22: one set evicts at most max(1, ceil(N / 10)) entries, N being the
\* size of the store when the set is called; evictionCount grows by the
\* number of entries it evicted, the evicted keys are gone and all other
\* entries stay; a store of more than one entry is never emptied.
C22_BoundedEviction ==
    \A k \in {"A", "B", "C", "k01", "big"}, v \in Values,
       o \in Options({1}, {"true"}) :
        LET r == set(Eng, k, v, o, now)
            N == Len(store)
            evictedKeys == {r.victims[i] : i \in 1..Len(r.victims)}
            bound == IF N <= 10 THEN 1 ELSE IF N <= 20 THEN 2 ELSE 3
        IN /\ Len(r.victims) <= bound
           /\ Cardinality(evictedKeys) = Len(r.victims)
           /\ r.E.stats.evictionCount = stats.evictionCount + Len(r.victims)
           /\ evictedKeys \subseteq StoreKeys(store)
           /\ StoreKeys(r.E.store) \ {k} = (StoreKeys(store) \ evictedKeys) \ {k}
           /\ N > 1 => Len(r.victims) < N

\* a set on a store of twelve entries that evicted two of them and left the
\* store above the ceiling
C22_Witness ==
    /\ last.op = "set"
    /\ last.ok
    /\ Len(last.victims) = 2
    /\ Len(store) = 11
    /\ calculateMemoryUsage(Eng) >= maxMemoryBytes
    /\ stats.evictionCount = 2


\* the bytes calculateMemoryUsage counts for one entry of the store
EntryBytes(k, v) == KeyLength(k) + calculateValueSize(v) + EntryOverhead

\* C23: under LRU, LFU and FIFO a set that is not rejected runs the
\* eviction loop exactly when the usage the store would have after the
\* insert (the current entries without the one being overwritten, plus the
\* new entry) is at or above the ceiling.
C23_PostInsertTrigger ==
    policy # "none" =>
      \A k \in Keys, v \in Values, o \in Options({1}, {"true"}) :
          LET r == set(Eng, k, v, o, now)
              others == [store |-> StoreDelete(store, k)]
              postUsage == calculateMemoryUsage(others) + EntryBytes(k, v)
          IN r.evictRan <=> postUsage >= maxMemoryBytes


\* the keys of the ordering the policy selects victims from
VictimOrder(E) ==
    CASE policy = "lru" -> E.accessOrder
      [] policy = "fifo" -> E.insertionOrder
      [] OTHER -> <<>>

\* C24: in every state and under every policy selectVictim returns none or
\* a key of the store, also when the bookkeeping of the entry being
\* overwritten has been removed; no delete of the eviction loop fails and
\* every victim of a set was a stored key.
C24_NoStaleVictim ==
    /\ \E sv \in {selectVictim(Eng)} :
          sv.victim = NoKey \/ HasKey(store, sv.victim)
    /\ \A k \in Keys :
          \E ev \in {evictEntries(onRemove(Eng, k))} :
              /\ ~ev.spin
              /\ \A i \in 1..Len(ev.victims) : HasKey(store, ev.victims[i])
    /\ policy = "none" => selectVictim(Eng).victim = NoKey

\* the oldest key of the ordering is stale, the store is at the ceiling,
\* and the victim selected is a stored key behind it
C24_Witness ==
    /\ VictimOrder(Eng) # <<>>
    /\ ~HasKey(store, Head(VictimOrder(Eng)))
    /\ shouldEvict(Eng)
    /\ selectVictim(Eng).victim # NoKey
    /\ HasKey(store, selectVictim(Eng).victim)


NoDuplicates(s) == \A i, j \in 1..Len(s) : s[i] = s[j] => i = j

\* C25: after clear() the strategy bookkeeping is empty; under LRU and FIFO
\* no key occurs twice in the ordering, and the first victim of a set of a
\* new key is the oldest stored key in the order of the operations since
\* the last clear.
C25_ClearResetsBookkeeping ==
    /\ last.op = "clear" =>
          accessOrder = <<>> /\ insertionOrder = <<>> /\ frequencies = EmptyMap
    /\ NoDuplicates(accessOrder)
    /\ NoDuplicates(insertionOrder)
    /\ policy \in {"lru", "fifo"} =>
          \A k \in Keys4 \ StoreKeys(store) :
              \E r \in {set(Eng, k, NumV(1), NoOptions, now)} :
                  r.victims # <<>> => r.victims[1] = Head(ref.order)


-----------------------------------------------------------------------------
(* Claims about expired entries and the calls that replace an entry,       *)
(* checked under SpecExpiry: sets with a TTL of one second, clock ticks    *)
(* of half a second and of one and a half, and clear.                      *)

ExTick == Step(MaxStepsExpiry) /\ TickOn({500, 1500})

ExSet ==
    Step(MaxStepsExpiry)
      /\ SetOn(Keys, {NumV(1), StrV(1, 1)}, Options({1}, {"true"}))

ExGet == Step(MaxStepsExpiry) /\ GetOn(Keys)

ExHas == Step(MaxStepsExpiry) /\ HasOn(Keys)

ExKeys == Step(MaxStepsExpiry) /\ KeysCall

ExClear == Step(MaxStepsExpiry) /\ ClearAll

ExUpdateTTL == Step(MaxStepsExpiry) /\ UpdateTTLOn(Keys, {0, 2})

ExIncrement == Step(MaxStepsExpiry) /\ IncrementOn(Keys, {1})

NextExpiry ==
    \/ ExTick
    \/ ExSet
    \/ ExGet
    \/ ExHas
    \/ ExKeys
    \/ ExClear
    \/ ExUpdateTTL
    \/ ExIncrement

SpecExpiry == Init /\ [][NextExpiry]_vars


\* C26: get on a stored but expired key removes the entry from the store
\* and the key from the strategy bookkeeping, adds 1 to missCount and 1 to
\* expiredCount, leaves hitCount, evictionCount and every other entry as
\* they were and returns not-found; get on an absent key adds 1 to
\* missCount and changes nothing else.
C26_GetExpiredOrAbsent ==
    \A k \in Keys :
        \E r \in {get(Eng, k, now)} :
            /\ (HasKey(store, k) /\ ExpiredAt(StoreGet(store, k), now)) =>
                  /\ r.ret = NullV
                  /\ r.E.store = SelectSeq(store, LAMBDA e : e.key # k)
                  /\ k \notin Tracked(r.E)
                  /\ r.E.stats = [stats EXCEPT !.missCount = @ + 1,
                                               !.expiredCount = @ + 1]
            /\ ~HasKey(store, k) =>
                  /\ r.ret = NullV
                  /\ r.E = [Eng EXCEPT !.stats.missCount = @ + 1]


\* C27: has(k) returns true exactly when k is stored and not expired; on a
\* live or absent key it changes nothing at all, so the counters, the
\* ordering, the frequencies and the next victim stay as they were; on an
\* expired key it removes the entry, returns false and leaves hitCount and
\* missCount, every other entry and the order of the other keys unchanged.
C27_HasIsProbe ==
    \A k \in Keys :
        \E r \in {has(Eng, k, now)} :
            LET stored == HasKey(store, k)
                live == stored /\ ~ExpiredAt(StoreGet(store, k), now)
                others(s) == SelectSeq(s, LAMBDA x : x # k)
            IN /\ r.ret <=> live
               /\ (live \/ ~stored) =>
                     /\ r.E = Eng
                     /\ selectVictim(r.E).victim = selectVictim(Eng).victim
               /\ (stored /\ ~live) =>
                     /\ r.E.store = SelectSeq(store, LAMBDA e : e.key # k)
                     /\ others(r.E.accessOrder) = others(accessOrder)
                     /\ others(r.E.insertionOrder) = others(insertionOrder)
                     /\ \A x \in Keys \ {k} :
                           GetOr0(r.E.frequencies, x) = GetOr0(frequencies, x)
               /\ r.E.stats.hitCount = stats.hitCount
               /\ r.E.stats.missCount = stats.missCount

\* has on an expired key has removed it, next to a live key it answered
\* true for
C27_Witness ==
    /\ last.op = "has"
    /\ last.existed
    /\ ~last.ok
    /\ ~HasKey(store, last.key)
    /\ \E k \in StoreKeys(store) : has(Eng, k, now).ret
    /\ stats.hitCount = 0
    /\ stats.missCount = 0


\* C28: keys() returns, in store order, exactly the keys of the entries
\* that are stored and not expired at the time of the call, and leaves the
\* store (expired entries included), the counters and the strategy
\* bookkeeping as they were.
C28_KeysReadOnly ==
    \E r \in {keysCall(Eng, now)} :
        LET live == SelectSeq(store, LAMBDA e : ~ExpiredAt(e, now))
        IN /\ Len(r.ret) = Len(live)
           /\ \A i \in 1..Len(live) : r.ret[i] = live[i].key
           /\ r.E = Eng

\* keys() has listed one key and left an expired entry in the store
C28_Witness ==
    /\ last.op = "keys"
    /\ last.ret = NumV(1)
    /\ Len(store) = 2
    /\ \E i \in 1..2 : ExpiredAt(store[i], now)
    /\ stats.expiredCount = 0


\* C29: updateTTL(k, t) on an absent or expired key returns failure and
\* changes nothing; on a live key it returns success, a following get(k)
\* returns the value stored before, and the entry is found up to t seconds
\* after the call and no longer after that, or at every later time when t
\* is zero or negative, whatever the old expiry was.
C29_UpdateTTL ==
    \A k \in Keys, ttl \in {-1, 0, 1, 2} :
        \E r \in {updateTTL(Eng, k, ttl, now)} :
            LET stored == HasKey(store, k)
                live == stored /\ ~ExpiredAt(StoreGet(store, k), now)
            IN /\ r.ret <=> live
               /\ ~live => r.E = Eng
               /\ live =>
                    /\ get(r.E, k, now).ret = StoreGet(store, k).value
                    /\ StoreKeys(r.E.store) = StoreKeys(store)
                    /\ r.E.stats = stats
                    /\ ttl > 0 =>
                         /\ has(r.E, k, now + 1000 * ttl).ret
                         /\ ~has(r.E, k, now + 1000 * ttl + 1).ret
                    /\ ttl <= 0 =>
                         \A t \in Later : has(r.E, k, t).ret

\* an updateTTL half a second after the set has given an entry that was to
\* expire after one second two seconds from the call
C29_Witness ==
    /\ last.op = "updateTTL"
    /\ last.ok
    /\ last.ret = NumV(2)
    /\ now = 500
    /\ StoreGet(store, last.key).expiresAt = 2500


\* C30: a successful increment(k, d) stores the old value plus d and leaves
\* the instant of expiry where it was: an entry with an expiry keeps
\* exactly that expiry, an entry without one stays without.
C30_IncrementKeepsExpiry ==
    \A k \in Keys :
        \E r \in {increment(Eng, k, 1, now)} :
            isNumber(r.ret) =>
                /\ r.ret = NumV(StoreGet(store, k).value.n + 1)
                /\ StoreGet(r.E.store, k).value = r.ret
                /\ StoreGet(r.E.store, k).expiresAt
                     = StoreGet(store, k).expiresAt


\* C31: when the entry of k is stored but expired, delete(k) returns false,
\* updateTTL(k, t) returns false and increment(k) returns null, and after
\* each of the three calls the entry is no longer in the store.
C31_ExpiredIsNotFound ==
    \A k \in Keys :
        (HasKey(store, k) /\ ExpiredAt(StoreGet(store, k), now)) =>
            /\ \E r \in {delete(Eng, k)} :
                  ~r.ret /\ ~HasKey(r.E.store, k)
            /\ \E r \in {updateTTL(Eng, k, 2, now)} :
                  ~r.ret /\ ~HasKey(r.E.store, k)
            /\ \E r \in {increment(Eng, k, 1, now)} :
                  r.ret = NullV /\ ~HasKey(r.E.store, k)


\* the entries of st that are absent from the store of E
Removed(st, E) == Len(st) - Len(E.store)

\* C32: whichever call removes expired entries, a get, a has, a
\* cleanupExpired or a pass of the sweeper, expiredCount grows by exactly
\* the number of entries that call removed from the store.
C32_ExpiredCountedOnce ==
    /\ \A k \in Keys :
          /\ \E r \in {get(Eng, k, now)} :
                r.E.stats.expiredCount = stats.expiredCount + Removed(store, r.E)
          /\ \E r \in {has(Eng, k, now)} :
                r.E.stats.expiredCount = stats.expiredCount + Removed(store, r.E)
    /\ \E r \in {cleanupExpired(Eng, now)} :
          r.E.stats.expiredCount = stats.expiredCount + Removed(store, r.E)
    /\ \E r \in {performCleanup(Wk, Eng, now)} :
          r.E.stats.expiredCount = stats.expiredCount + Removed(store, r.E)


\* C33: getStats().totalKeys is the number of keys that keys() returns at
\* the same instant.
C33_TotalKeysLive ==
    getStats(Eng, now).totalKeys = Len(keys(Eng, now))


\* a step that is a cleanup pass of the sweeper
IsPass(op) == op \in {"timer", "forceCleanup"}

\* C34: every pass of the sweeper, by its timer or by forceCleanup, running
\* or not, adds 1 to totalRuns and the count cleanupExpired returned, which
\* is the number of entries the pass removed, to totalExpiredKeys; no other
\* step changes either; totalExpiredKeys never exceeds expiredCount.
C34_SweeperStats ==
    /\ [](/\ worker.stats.totalExpiredKeys <= stats.expiredCount
          /\ \E r \in {forceCleanup(Wk, Eng, now)} :
                /\ r.W.worker.stats.totalRuns = worker.stats.totalRuns + 1
                /\ r.expiredKeysRemoved = Len(store) - Len(r.E.store))
    /\ [][/\ IsPass(last'.op) =>
               /\ worker'.stats.totalRuns = worker.stats.totalRuns + 1
               /\ worker'.stats.totalExpiredKeys
                    = worker.stats.totalExpiredKeys + last'.ret.n
               /\ last'.ret.n = Len(store) - Len(store')
               /\ stats'.expiredCount = stats.expiredCount + last'.ret.n
          /\ ~IsPass(last'.op) =>
               /\ worker'.stats.totalRuns = worker.stats.totalRuns
               /\ worker'.stats.totalExpiredKeys
                    = worker.stats.totalExpiredKeys]_vars

\* forceCleanup on a stopped sweeper has removed an expired entry
C34_Witness ==
    /\ last.op = "forceCleanup"
    /\ ~worker.isRunning
    /\ last.ret = NumV(1)
    /\ worker.stats.totalRuns >= 1
    /\ worker.stats.totalExpiredKeys = 1
    /\ stats.expiredCount = 1
    /\ store = <<>>

-----------------------------------------------------------------------------
(* StatsCollector.getHealthStatus (src/src/monitoring/StatsCollector.ts).  *)
(* The heap usage of the process and the operations per second of the     *)
(* performance history are inputs; memoryUsageMB and hitRate are in        *)
(* hundredths, as getStats gives them.                                     *)

MaxMemoryMB == 100

SystemMemoryPercents == {50, 90}

OperationsPerSecond == {0, 20}

\* memoryUsageMB values probed in place of the engine's: 0.00, 80.00 and
\* 95.00 MB
MemoryUsagesMB == {0, 8000, 9500}

CriticalIssues == {"Cache memory usage critically high"}

getHealthStatus(cacheStats, maxMemoryMB, systemMemoryPercent, operationsPerSecond) ==
    LET memory ==
            IF cacheStats.memoryUsageMB > 90 * maxMemoryMB
            THEN <<"Cache memory usage critically high">>
            ELSE IF cacheStats.memoryUsageMB > 75 * maxMemoryMB
            THEN <<"Cache memory usage high">>
            ELSE <<>>
        system ==
            IF systemMemoryPercent > 85
            THEN <<"System memory usage high">> ELSE <<>>
        hitRate ==
            IF cacheStats.hitRate < 5000
            THEN <<"Low cache hit rate">> ELSE <<>>
        ops ==
            IF operationsPerSecond < 10
                 /\ cacheStats.hitCount + cacheStats.missCount > 100
            THEN <<"Low operations per second">> ELSE <<>>
        issues == memory \o system \o hitRate \o ops
    IN [status |-> IF issues = <<>> THEN "healthy"
                   ELSE IF \E i \in 1..Len(issues) : issues[i] \in CriticalIssues
                   THEN "critical" ELSE "warning",
        issues |-> issues]

\* C35: an engine on which no get was made gets no low-hit-rate issue, and
\* is healthy when the cache memory is at most 75 % and the heap at most
\* 85 %; the status is critical exactly when a critical issue is present,
\* else warning exactly when any issue is present, else healthy.
C35_HealthVerdict ==
    \A m \in MemoryUsagesMB, heap \in SystemMemoryPercents,
       ops \in OperationsPerSecond :
        \E h \in {getHealthStatus([getStats(Eng, now) EXCEPT !.memoryUsageMB = m],
                                  MaxMemoryMB, heap, ops)} :
            LET issues == {h.issues[i] : i \in 1..Len(h.issues)}
            IN /\ stats.hitCount + stats.missCount = 0 =>
                    /\ "Low cache hit rate" \notin issues
                    /\ (m <= 75 * MaxMemoryMB /\ heap <= 85) =>
                          h.status = "healthy"
               /\ h.status = "critical" <=> issues \cap CriticalIssues # {}
               /\ h.status = "warning" <=>
                    (issues # {} /\ issues \cap CriticalIssues = {})
               /\ h.status = "healthy" <=> issues = {}


\* C36: under LRU, LFU and FIFO, a set that overwrites a stored key k
\* evicts only keys other than k.
C36_NotOwnVictim ==
    policy # "none" =>
        \A k \in StoreKeys(store), v \in Values, o \in Options({1}, {"true"}) :
            \E r \in {set(Eng, k, v, o, now)} :
                \A i \in 1..Len(r.victims) : r.victims[i] # k


\* C37: every get adds 1 to exactly one of hitCount and missCount and
\* returns null exactly when it added to missCount, also when the stored
\* value is null.
C37_HitMissAgree ==
    \A k \in Keys :
        \E r \in {get(Eng, k, now)} :
            LET hit == r.E.stats.hitCount - stats.hitCount
                miss == r.E.stats.missCount - stats.missCount
            IN /\ hit + miss = 1
               /\ hit \in {0, 1}
               /\ r.ret = NullV <=> miss = 1


Lookups(st) == st.hitCount + st.missCount

\* C38: a get adds exactly 1 to hitCount + missCount and no other call
\* changes hitCount or missCount: not set, delete, has, clear, updateTTL,
\* increment, cleanupExpired, getStats or the passing of time, and neither
\* keys() nor a pass of the sweeper applied in any state.
C38_OnlyGetCounts ==
    /\ [](/\ keysCall(Eng, now).E.stats = stats
          /\ \E r \in {performCleanup(Wk, Eng, now)} :
                /\ r.E.stats.hitCount = stats.hitCount
                /\ r.E.stats.missCount = stats.missCount)
    /\ [][/\ last'.op = "get" => Lookups(stats') = Lookups(stats) + 1
          /\ last'.op # "get" =>
               /\ stats'.hitCount = stats.hitCount
               /\ stats'.missCount = stats.missCount]_vars

\* an increment made after a hit and a miss were counted
C38_Witness ==
    /\ last.op = "increment"
    /\ last.ok
    /\ stats.hitCount = 1
    /\ stats.missCount = 1


\* C39: under every policy the key selectVictim returns after a successful
\* updateTTL(k, t) is the key it returned before the call.
C39_UpdateTTLKeepsVictim ==
    \A k \in Keys, ttl \in {0, 2} :
        \E r \in {updateTTL(Eng, k, ttl, now)} :
            r.ret => selectVictim(r.E).victim = selectVictim(Eng).victim


\* C40: the eviction loop of a set, entered from any state and for any key
\* being set, never selects a victim it fails to delete; it deletes and
\* counts one entry per iteration and makes at most ceil(N / 10) iterations
\* for a store of N entries, so every set returns.
C40_SetTerminates ==
    \A k \in Keys :
        \E ev \in {evictEntries(IF HasKey(store, k) THEN onRemove(Eng, k)
                                ELSE Eng)} :
            /\ ev.spin = FALSE
            /\ ev.maxEvictions = CeilDiv(Len(store), 10)
            /\ Len(ev.victims) <= ev.maxEvictions
            /\ Len(ev.E.store) = Len(store) - Len(ev.victims)
            /\ ev.E.stats.evictionCount = stats.evictionCount + Len(ev.victims)

\* after a set, the oldest key of the ordering is stale and the store is at
\* the ceiling: the loop of the next set skips the stale key, evicts one
\* entry and returns
C40_Witness ==
    /\ last.op = "set"
    /\ VictimOrder(Eng) # <<>>
    /\ ~HasKey(store, Head(VictimOrder(Eng)))
    /\ \E ev \in {evictEntries(Eng)} :
          /\ ev.ret
          /\ Len(ev.victims) = 1
          /\ ev.E.stats.evictionCount = stats.evictionCount + 1

=============================================================================
